---- MODULE Spec2Model ----
(***************************************************************************)
(* State machine of the RLS Policy DSL Tester session                      *)
(* (src/src/components/RLSTester.tsx): the component state input, output,  *)
(* error and copied, the handlers executeCode, copyToClipboard,            *)
(* loadExample and the editor's onChange, the clipboard writes in flight   *)
(* and the pending setTimeout callbacks.                                   *)
(***************************************************************************)
EXTENDS Integers, Sequences, FiniteSets, TLC

VARIABLES
  input,      \* useState(EXAMPLE_CODE): the Program Source
  output,     \* useState(''): the generated text
  error,      \* useState(''): the error message
  copied,     \* useState(false): the "Copied!" acknowledgement
  pending,    \* navigator.clipboard.writeText calls in flight (text captured)
  timers,     \* pending setTimeout callbacks: seconds left, oldest first
  clipboard,  \* the text last written to the system clipboard
  elapsed,    \* seconds since the latest completed copy (saturating)
  ambient,    \* the global object shared by every function built by new Function
  last,       \* the session handler (execute, edit, load) that ran last, the
              \* text it was given, the completion of the program it evaluated
              \* and the handler that set input to its present value (origin)
  uncaught,   \* TRUE when an exception left executeCode
  \* scripts/copy-types.js, the build step that snapshots the declarations
  scriptPc,   \* the statement the script is at
  hasBundle,  \* node_modules/rls-dsl/dist/bundle.d.ts exists
  present,    \* the files of node_modules/rls-dsl/dist that exist
  target,     \* what src/rls-dsl-types.d.ts holds
  idx,        \* position of the for loop in files
  combined,   \* the text built by the loop, as lines
  raised,     \* TRUE when a file operation threw and the catch block ran
  exitCode    \* exit status of the process, NotExited while it runs

session == <<input, output, error, copied, pending, timers, clipboard, elapsed,
             ambient, last, uncaught>>

script == <<scriptPc, hasBundle, present, target, idx, combined, raised,
            exitCode>>

vars == <<session, script>>

------------------------------------------------------------------------------
(* Bounds of the model *)

MaxPending == 1
MaxTimers == 2

(* setTimeout(..., 2000): the delay in seconds *)
CopiedDelay == 2

------------------------------------------------------------------------------
(* Program texts *)

EXAMPLE_CODE ==
  "const policy = createPolicy('user_documents').on('documents').read().when(column('user_id').isOwner()); return policy.toSQL();"

ExampleMultiTenant ==
  "const policy = createPolicy('tenant_isolation').on('tenant_data').all().requireAll().when(column('tenant_id').belongsToTenant()); return policy.toSQL();"

\* the catalog: (name, code) pairs; two of the fourteen entries
EXAMPLES ==
  { [name |-> "User Ownership", code |-> EXAMPLE_CODE],
    [name |-> "Multi-Tenant",   code |-> ExampleMultiTenant] }

SqlUserDocuments == "CREATE POLICY user_documents ON documents FOR SELECT ..."
SqlAdminDocs == "CREATE POLICY admin_docs ON documents FOR SELECT ..."
SqlTenantIsolation == "CREATE POLICY tenant_isolation ON tenant_data AS RESTRICTIVE FOR ALL ..."

SrcReturnX      == "return 'X';"
SrcReturnEmpty  == "return '';"
SrcReturn42     == "return 42;"
SrcReturnObject == "return createPolicy('p').on('t');"
SrcNoReturn     == "createPolicy('p').on('t').read().toSQL();"
SrcThrowError   == "throw new Error('bad column');"
SrcThrowNoMsg   == "throw new Error();"
SrcThrowString  == "throw 'bad column';"
SrcThrowObject  == "throw { message: 'denied' };"
SrcSyntax       == "return (;"
SrcAmbient      == "if (globalThis.seen) return 'again'; globalThis.seen = true; return 'first';"
SrcHasRole      == "return createPolicy('admin_docs').on('documents').read().when(hasRole('admin')).toSQL();"

UserSources ==
  { SrcReturnX, SrcReturnEmpty, SrcReturn42, SrcReturnObject, SrcNoReturn,
    SrcThrowError, SrcThrowNoMsg, SrcThrowString, SrcThrowObject,
    SrcSyntax, SrcAmbient, SrcHasRole, "" }

Sources == UserSources \cup { e.code : e \in EXAMPLES }

\* the editor hands onChange a string or undefined
UNDEFINED == "<undefined>"
EditValues == Sources \cup {UNDEFINED}

------------------------------------------------------------------------------
(* JavaScript values and completions, as far as executeCode inspects them: *)
(* t is what typeof / instanceof Error tell, s the string value or the     *)
(* message property, desc the human-readable description String(v) gives   *)
(* or the message the value carries.                                       *)

Val(t, s, desc) == [t |-> t, s |-> s, desc |-> desc]

StringVal(s)  == Val("string", s, s)
NumberVal(d)  == Val("number", "", d)
UndefinedVal  == Val("undefined", "", "")
ObjectVal(m)  == Val("object", m, m)
ErrorVal(m)   == Val("Error", m, m)

Returns(v)    == [kind |-> "return", at |-> "invoke", val |-> v]
Throws(at, v) == [kind |-> "throw", at |-> at, val |-> v]
NoCompletion  == [kind |-> "none", at |-> "none", val |-> UndefinedVal]

\* new Function(..., input): a text that does not parse throws a SyntaxError
NewFunctionThrows(src) == src = SrcSyntax

\* declare global { const ...: typeof RLS....; }: the names the editor offers
GlobalDeclarations ==
  { "createPolicy", "column", "auth", "session", "currentUser", "from",
    "hasRole", "alwaysTrue", "call", "policies" }

\* the parameter names given to new Function: the names bound in the scope
FunctionParameters ==
  { "createPolicy", "column", "auth", "session", "from", "currentUser",
    "policies" }

\* names of the global object the program texts use
GlobalObjectNames == { "globalThis", "Error" }

\* the identifiers a program text uses without declaring them
FreeIdentifiers(src) ==
  CASE src \in {EXAMPLE_CODE, ExampleMultiTenant} -> {"createPolicy", "column"}
    [] src \in {SrcReturnObject, SrcNoReturn}      -> {"createPolicy"}
    [] src \in {SrcThrowError, SrcThrowNoMsg}      -> {"Error"}
    [] src = SrcAmbient                            -> {"globalThis"}
    [] src = SrcHasRole                            -> {"createPolicy", "hasRole"}
    [] OTHER                                       -> {}

\* an identifier resolves to a parameter of the function or to a property of
\* the global object
Unresolved(src) ==
  { id \in FreeIdentifiers(src) : id \notin FunctionParameters \cup GlobalObjectNames }

\* the message of the ReferenceError
NotDefined(id) == id \o " is not defined"

\* the body run with every identifier resolved: its completion and the global
\* object it leaves behind
Body(src, amb) ==
  CASE src = EXAMPLE_CODE       -> [comp |-> Returns(StringVal(SqlUserDocuments)), amb |-> amb]
    [] src = ExampleMultiTenant -> [comp |-> Returns(StringVal(SqlTenantIsolation)), amb |-> amb]
    [] src = SrcReturnX         -> [comp |-> Returns(StringVal("X")), amb |-> amb]
    [] src = SrcReturnEmpty     -> [comp |-> Returns(StringVal("")), amb |-> amb]
    [] src = SrcReturn42        -> [comp |-> Returns(NumberVal("42")), amb |-> amb]
    [] src = SrcReturnObject    -> [comp |-> Returns(ObjectVal("")), amb |-> amb]
    [] src = SrcNoReturn        -> [comp |-> Returns(UndefinedVal), amb |-> amb]
    [] src = ""                 -> [comp |-> Returns(UndefinedVal), amb |-> amb]
    [] src = SrcThrowError      -> [comp |-> Throws("invoke", ErrorVal("bad column")), amb |-> amb]
    [] src = SrcThrowNoMsg      -> [comp |-> Throws("invoke", ErrorVal("")), amb |-> amb]
    [] src = SrcThrowString     -> [comp |-> Throws("invoke", StringVal("bad column")), amb |-> amb]
    [] src = SrcThrowObject     -> [comp |-> Throws("invoke", ObjectVal("denied")), amb |-> amb]
    [] src = SrcAmbient         -> [comp |-> Returns(StringVal(IF amb THEN "again" ELSE "first")),
                                    amb |-> TRUE]
    [] src = SrcHasRole         -> [comp |-> Returns(StringVal(SqlAdminDocs)), amb |-> amb]

\* func(RLS.createPolicy, ...): a ReferenceError at the first identifier that
\* does not resolve, else the completion of the body
Invoke(src, amb) ==
  IF Unresolved(src) # {}
    THEN [comp |-> Throws("invoke",
                     ErrorVal(NotDefined(CHOOSE id \in Unresolved(src) : TRUE))),
          amb |-> amb]
    ELSE Body(src, amb)

Evaluate(src, amb) ==
  IF NewFunctionThrows(src)
    THEN [comp |-> Throws("construct", ErrorVal("Unexpected token ';'")), amb |-> amb]
    ELSE Invoke(src, amb)

------------------------------------------------------------------------------
(* executeCode *)

ContractMessage == "Code must return a string (use policy.toSQL())"
FallbackMessage == "An error occurred"

\* variant: the try block opened after the callable is constructed
TryCoversInvokeOnly == {"invoke"}

\* the statements the try block encloses
TryCovers == {"construct", "invoke"}

Escapes(c) == c.kind = "throw" /\ c.at \notin TryCovers

\* variant: the message taken from any thrown value that describes itself
CatchMessageAnyDescription(v) == IF v.desc # "" THEN v.desc ELSE FallbackMessage

\* catch (err): err instanceof Error ? err.message : 'An error occurred'
CatchMessage(v) == IF v.t = "Error" THEN v.s ELSE FallbackMessage

\* variant: setError('') left out
ErrorAfterNoReset(c, err) ==
  IF c.kind = "return"
    THEN IF c.val.t = "string" THEN err ELSE ContractMessage
    ELSE IF Escapes(c) THEN err ELSE CatchMessage(c.val)

\* variant: the contract message names the type of the value returned
ErrorAfterNamesType(c, err) ==
  IF c.kind = "return"
    THEN IF c.val.t = "string" THEN "" ELSE "Code must return a string, got " \o c.val.t
    ELSE IF Escapes(c) THEN "" ELSE CatchMessage(c.val)

\* the value of error after the handler, err before it: setError('') first,
\* then the branch taken
ErrorAfter(c, err) ==
  LET cleared == "" IN
    IF c.kind = "return"
      THEN IF c.val.t = "string" THEN cleared ELSE ContractMessage
      ELSE IF Escapes(c) THEN cleared ELSE CatchMessage(c.val)

\* variant: setOutput(result) left out of the string branch
OutputAfterNoSet(c, out) ==
  IF c.kind = "return" THEN out ELSE IF Escapes(c) THEN out ELSE ""

\* the value of output after the handler, out before it: setOutput runs in
\* the string branch and in the catch block only
OutputAfter(c, out) ==
  IF c.kind = "return"
    THEN IF c.val.t = "string" THEN c.val.s ELSE out
    ELSE IF Escapes(c) THEN out ELSE ""

executeCode ==
  LET ev == Evaluate(input, ambient) IN
    /\ error' = ErrorAfter(ev.comp, error)
    /\ output' = OutputAfter(ev.comp, output)
    /\ ambient' = ev.amb
    /\ uncaught' = (uncaught \/ Escapes(ev.comp))
    /\ last' = [op |-> "execute", src |-> input, comp |-> ev.comp,
                origin |-> last.origin]
    /\ UNCHANGED <<input, copied, pending, timers, clipboard, elapsed>>

------------------------------------------------------------------------------
(* The editor's onChange and loadExample *)

\* value || ''
OrEmpty(value) == IF value = UNDEFINED THEN "" ELSE value

\* variant: an edit that also clears the result
onChangeClears(value) ==
  /\ input' = OrEmpty(value)
  /\ output' = ""
  /\ error' = ""
  /\ last' = [op |-> "edit", src |-> value, comp |-> NoCompletion,
              origin |-> "edit"]
  /\ UNCHANGED <<copied, pending, timers, clipboard, elapsed, ambient, uncaught>>

onChange(value) ==
  /\ input' = OrEmpty(value)
  /\ last' = [op |-> "edit", src |-> value, comp |-> NoCompletion,
              origin |-> "edit"]
  /\ UNCHANGED <<output, error, copied, pending, timers, clipboard, elapsed,
                 ambient, uncaught>>

\* variant: setError('') left out of loadExample
loadExampleKeepsError(code) ==
  /\ input' = code
  /\ output' = ""
  /\ last' = [op |-> "load", src |-> code, comp |-> NoCompletion,
              origin |-> "load"]
  /\ UNCHANGED <<error, copied, pending, timers, clipboard, elapsed, ambient,
                 uncaught>>

loadExample(code) ==
  /\ input' = code
  /\ output' = ""
  /\ error' = ""
  /\ last' = [op |-> "load", src |-> code, comp |-> NoCompletion,
              origin |-> "load"]
  /\ UNCHANGED <<copied, pending, timers, clipboard, elapsed, ambient, uncaught>>

------------------------------------------------------------------------------
(* copyToClipboard: the call, the completion of writeText, the timer *)

RemoveAt(s, i) == [j \in 1..(Len(s) - 1) |-> IF j < i THEN s[j] ELSE s[j + 1]]

\* the button is rendered only when output is truthy, and the handler tests
\* output again
copyToClipboard ==
  /\ output # ""
  /\ Len(pending) < MaxPending
  /\ pending' = Append(pending, output)
  /\ UNCHANGED <<input, output, error, copied, timers, clipboard, elapsed,
                 ambient, last, uncaught>>

\* await navigator.clipboard.writeText(output) resolves
writeTextResolves(i) ==
  /\ Len(timers) < MaxTimers
  /\ clipboard' = pending[i]
  /\ pending' = RemoveAt(pending, i)
  /\ copied' = TRUE
  /\ timers' = Append(timers, CopiedDelay)
  /\ elapsed' = 0
  /\ UNCHANGED <<input, output, error, ambient, last, uncaught>>

\* variant: a rejected write reported through the error channel
writeTextRejectsReports(i) ==
  /\ pending' = RemoveAt(pending, i)
  /\ error' = "Failed to copy"
  /\ UNCHANGED <<input, output, copied, timers, clipboard, elapsed,
                 ambient, last, uncaught>>

\* writeText rejects: the rest of copyToClipboard does not run
writeTextRejects(i) ==
  /\ pending' = RemoveAt(pending, i)
  /\ UNCHANGED <<input, output, error, copied, timers, clipboard, elapsed,
                 ambient, last, uncaught>>

\* () => setCopied(false), when its delay has passed
timerFires ==
  /\ timers # <<>>
  /\ Head(timers) = 0
  /\ copied' = FALSE
  /\ timers' = Tail(timers)
  /\ UNCHANGED <<input, output, error, pending, clipboard, elapsed, ambient,
                 last, uncaught>>

\* one second passes; a due callback runs before time moves on
Tick ==
  /\ \A k \in 1..Len(timers) : timers[k] > 0
  /\ timers' = [k \in 1..Len(timers) |-> timers[k] - 1]
  /\ elapsed' = IF elapsed > CopiedDelay THEN elapsed ELSE elapsed + 1
  /\ UNCHANGED <<input, output, error, copied, pending, clipboard, ambient,
                 last, uncaught>>

------------------------------------------------------------------------------
(* scripts/copy-types.js *)

\* the list the for loop walks
files ==
  << "types.d.ts", "column.d.ts", "context.d.ts", "sql.d.ts",
     "subquery-builder.d.ts", "policy-builder.d.ts", "validation.d.ts",
     "composition.d.ts", "index.d.ts" >>

IndexFile == "index.d.ts"

FileNames == { files[k] : k \in 1..Len(files) }

\* what a declaration file of the package holds, as lines
ImportLine     == "import { SQLExpression } from './types';"
ExportStarLine == "export * from './types';"
ReExportLine   == "export { createPolicy } from './policy-builder';"

Content(file) ==
  IF file = IndexFile
    THEN << ExportStarLine, ReExportLine >>
    ELSE << ImportLine, "export declare const " \o file >>

\* /^import .+ from .+;$/gm and /^export \* from .+;$/gm
MatchesImport(line)     == line = ImportLine
MatchesExportStar(line) == line = ExportStarLine

\* variant: only the import statements removed
StripImportsOnly(lines) ==
  [k \in 1..Len(lines) |-> IF MatchesImport(lines[k]) THEN "" ELSE lines[k]]

\* content.replace(..., '') twice: a matching line becomes an empty line
Strip(lines) ==
  [k \in 1..Len(lines) |->
     IF MatchesImport(lines[k]) \/ MatchesExportStar(lines[k]) THEN "" ELSE lines[k]]

Header == << "// Auto-generated type definitions for rls-dsl", "" >>

\* what the target path can hold
Absent       == [kind |-> "absent",    lines |-> << >>]
Stale        == [kind |-> "stale",     lines |-> << "// from an earlier run" >>]
BundleCopy   == [kind |-> "bundle",    lines |-> << "declare module 'rls-dsl' { }" >>]
Generated(l) == [kind |-> "generated", lines |-> l]
Fallback     == [kind |-> "stub",
                 lines |-> << "// Fallback type definitions", "export * from 'rls-dsl';" >>]

NotExited == -1

\* the script is not running: the state the application's session starts from
ScriptNotRunning ==
  /\ scriptPc = "off"
  /\ hasBundle = FALSE
  /\ present = {}
  /\ target = Absent
  /\ idx = 0
  /\ combined = << >>
  /\ raised = FALSE
  /\ exitCode = NotExited

\* if (existsSync(sourcePath))
checkBundle ==
  /\ scriptPc = "start"
  /\ scriptPc' = IF hasBundle THEN "copy" ELSE "checkIndex"
  /\ UNCHANGED <<hasBundle, present, target, idx, combined, raised, exitCode>>

\* copyFileSync(sourcePath, targetPath)
copyBundle ==
  /\ scriptPc = "copy"
  /\ target' = BundleCopy
  /\ scriptPc' = "end"
  /\ UNCHANGED <<hasBundle, present, idx, combined, raised, exitCode>>

\* if (existsSync(indexPath)) ... let combined = header
checkIndex ==
  /\ scriptPc = "checkIndex"
  /\ IF IndexFile \in present
       THEN scriptPc' = "loop" /\ idx' = 1 /\ combined' = Header
       ELSE scriptPc' = "stub" /\ UNCHANGED <<idx, combined>>
  /\ UNCHANGED <<hasBundle, present, target, raised, exitCode>>

\* one turn of for (const file of files): read, strip, append
readFile ==
  /\ scriptPc = "loop"
  /\ idx <= Len(files)
  /\ combined' = IF files[idx] \in present
                   THEN combined \o Strip(Content(files[idx])) \o << "", "" >>
                   ELSE combined
  /\ idx' = idx + 1
  /\ UNCHANGED <<scriptPc, hasBundle, present, target, raised, exitCode>>

\* writeFileSync(targetPath, combined)
writeCombined ==
  /\ scriptPc = "loop"
  /\ idx > Len(files)
  /\ target' = Generated(combined)
  /\ scriptPc' = "end"
  /\ UNCHANGED <<hasBundle, present, idx, combined, raised, exitCode>>

\* writeFileSync(targetPath, fallback)
writeFallback ==
  /\ scriptPc = "stub"
  /\ target' = Fallback
  /\ scriptPc' = "end"
  /\ UNCHANGED <<hasBundle, present, idx, combined, raised, exitCode>>

\* copyFileSync, readFileSync or writeFileSync throws: control goes to catch
fileOperationThrows ==
  /\ \/ scriptPc \in {"copy", "stub"}
     \/ scriptPc = "loop" /\ (idx <= Len(files) => files[idx] \in present)
  /\ scriptPc' = "catch"
  /\ UNCHANGED <<hasBundle, present, target, idx, combined, raised, exitCode>>

\* variant: the catch block ends the process with a failure status
catchErrorFails ==
  /\ scriptPc = "catch"
  /\ raised' = TRUE
  /\ exitCode' = 1
  /\ scriptPc' = "done"
  /\ UNCHANGED <<hasBundle, present, target, idx, combined>>

\* catch (error) { console.error(...); process.exit(0); }
catchError ==
  /\ scriptPc = "catch"
  /\ raised' = TRUE
  /\ exitCode' = 0
  /\ scriptPc' = "done"
  /\ UNCHANGED <<hasBundle, present, target, idx, combined>>

\* the module runs to its end: the process exits with status 0
scriptEnds ==
  /\ scriptPc = "end"
  /\ exitCode' = 0
  /\ scriptPc' = "done"
  /\ UNCHANGED <<hasBundle, present, target, idx, combined, raised>>

------------------------------------------------------------------------------

SessionInit ==
  /\ input = EXAMPLE_CODE
  /\ output = ""
  /\ error = ""
  /\ copied = FALSE
  /\ pending = <<>>
  /\ timers = <<>>
  /\ clipboard = ""
  /\ elapsed = CopiedDelay + 1
  /\ ambient = FALSE
  /\ last = [op |-> "mount", src |-> EXAMPLE_CODE, comp |-> NoCompletion,
             origin |-> "mount"]
  /\ uncaught = FALSE

\* the session of the running application: the build script ran before it
Init == SessionInit /\ ScriptNotRunning

Next ==
  \/ executeCode /\ UNCHANGED script
  \/ \E value \in EditValues : onChange(value) /\ UNCHANGED script
  \/ \E e \in EXAMPLES : loadExample(e.code) /\ UNCHANGED script
  \/ copyToClipboard /\ UNCHANGED script
  \/ \E i \in 1..Len(pending) : writeTextResolves(i) /\ UNCHANGED script
  \/ \E i \in 1..Len(pending) : writeTextRejects(i) /\ UNCHANGED script
  \/ timerFires /\ UNCHANGED script
  \/ Tick /\ UNCHANGED script

Spec == Init /\ [][Next]_vars

\* a run of the script over any state of node_modules and of the target path
ScriptInit ==
  /\ SessionInit
  /\ scriptPc = "start"
  /\ hasBundle \in BOOLEAN
  /\ present \in SUBSET FileNames
  /\ target \in {Absent, Stale}
  /\ idx = 0
  /\ combined = << >>
  /\ raised = FALSE
  /\ exitCode = NotExited

ScriptNext ==
  \/ checkBundle /\ UNCHANGED session
  \/ copyBundle /\ UNCHANGED session
  \/ checkIndex /\ UNCHANGED session
  \/ readFile /\ UNCHANGED session
  \/ writeCombined /\ UNCHANGED session
  \/ writeFallback /\ UNCHANGED session
  \/ fileOperationThrows /\ UNCHANGED session
  \/ catchError /\ UNCHANGED session
  \/ scriptEnds /\ UNCHANGED session

SpecScript == ScriptInit /\ [][ScriptNext]_vars

------------------------------------------------------------------------------
(* Properties of the session *)

Executed == last.op = "execute"
Returned == Executed /\ last.comp.kind = "return"
Threw    == Executed /\ last.comp.kind = "throw"

\* C1: after an execute whose program returned a string S, whatever the
\* session held before, output is exactly S and error is empty.
C1_SuccessText ==
  (Returned /\ last.comp.val.t = "string")
    => (output = last.comp.val.s /\ error = "")

\* reached: a success recorded while an acknowledgement of an earlier copy shows
C1_Witness ==
  /\ Returned /\ last.comp.val.t = "string"
  /\ output = "X" /\ error = "" /\ copied /\ clipboard # "X"

\* C2: after an execute whose program returned a value that is not a string
\* (number, object, undefined), error is the fixed contract message.
C2_ContractMessage ==
  (Returned /\ last.comp.val.t # "string") => error = ContractMessage

C2_Witness ==
  /\ Returned /\ last.comp.val.t = "undefined" /\ last.src = SrcNoReturn
  /\ error = ContractMessage

\* C3 as stated: a thrown value that carries a description M gives error M,
\* and the fallback appears only for a value without description.
C3_AnyDescription ==
  Threw => /\ (last.comp.val.desc # "" => error = last.comp.val.desc)
           /\ (error = FallbackMessage => last.comp.val.desc = "")

\* C3 amended: a thrown Error instance gives its message; every other thrown
\* value gives the fallback, whether or not it describes itself.
C3_ErrorInstanceMessage ==
  Threw => error = (IF last.comp.val.t = "Error" THEN last.comp.val.s
                                                 ELSE FallbackMessage)

\* reached: a thrown string with a description, reported by the fallback
C3_Witness ==
  /\ Threw /\ last.comp.val.t = "string" /\ last.comp.val.desc = "bad column"
  /\ error = FallbackMessage

\* C4: after an execute whose program threw, error is not the empty string.
C4_NonEmptyMessage == Threw => error # ""

C6_NeverBoth == ~(output # "" /\ error # "")

\* C7: after loading an example, input is that example's code and output and
\* error are empty.
C7_LoadResets ==
  last.op = "load" => (input = last.src /\ output = "" /\ error = "")

\* reached: an example loaded after a text had been produced and copied
C7_Witness ==
  /\ last.op = "load" /\ input = ExampleMultiTenant
  /\ output = "" /\ error = "" /\ clipboard # ""

\* C8 as stated: after an edit, output and error are empty.
C8_EditClears == last.op = "edit" => (output = "" /\ error = "")

\* C8 amended: an edit leaves output and error as they were.
C8_EditKeepsResult ==
  [][last'.op = "edit" => (output' = output /\ error' = error)]_vars

\* reached: a success text still present after the source was edited
C8_Witness ==
  /\ last.op = "edit" /\ input = SrcThrowError /\ output = "X"

\* the result a source gives in a session that has executed nothing before
FreshResult(src) ==
  LET c == Evaluate(src, FALSE).comp
  IN  <<OutputAfter(c, ""), ErrorAfter(c, "")>>

\* C9: the result an execute records depends on the source executed only:
\* it is what the same source gives in a fresh session.
C9_NoResidue == Executed => <<output, error>> = FreshResult(last.src)

\* C10: the acknowledgement shows for the whole delay after the latest
\* completed copy and is gone once the delay has passed.
C10_AckLastsDelay ==
  /\ elapsed < CopiedDelay => copied
  /\ elapsed > CopiedDelay => ~copied

------------------------------------------------------------------------------
(* The result channel as the panel renders it: error first, then output *)

Idle      == error = "" /\ output = ""
Succeeded == error = "" /\ output # ""
Failed    == error # ""

\* an execute requested right after an example was loaded, no edit between
ExecuteAfterLoad == last.op = "load" /\ last'.op = "execute"

\* C11 as stated: between Idle and the outcome the result passes through
\* Running, so the step that takes the request does not yet hold the outcome.
C11_PassesRunning ==
  [][ExecuteAfterLoad =>
       (Idle /\ ~(Succeeded' \/ Failed') /\ input' = last.src)]_vars

\* C11 amended: the execute step itself takes the result from Idle to
\* Succeeded or Failed, input is still the loaded code, and the result does
\* not change again while no further handler runs.
C11_LoadThenExecute ==
  [][ /\ ExecuteAfterLoad =>
           /\ Idle
           /\ Succeeded' \/ Failed'
           /\ input' = last.src /\ input' = input
      /\ (Executed /\ last' = last) => (output' = output /\ error' = error)
    ]_vars

\* reached: the second example loaded, executed unedited, its text produced
C11_Witness ==
  /\ Executed /\ last.origin = "load" /\ last.src = ExampleMultiTenant
  /\ input = ExampleMultiTenant /\ output = SqlTenantIsolation /\ error = ""

\* a step of the copy machinery or of time: the call, the completion or the
\* rejection of writeText, the timer callback, a tick
BackgroundStep ==
  <<pending, timers, copied, clipboard, elapsed>>'
    # <<pending, timers, copied, clipboard, elapsed>>

\* C12: while the result is Failed, a copy call, a copy completion, a timer
\* expiry or a tick leaves the result and the message as they are and
\* evaluates no program; the message changes only when execute or load runs.
C12_FailedStays ==
  [][Failed =>
       /\ BackgroundStep =>
            /\ error' = error /\ output' = output
            /\ last' = last /\ ambient' = ambient /\ input' = input
       /\ (last' = last \/ last'.op = "edit") => error' = error
    ]_vars

\* reached: a thrown message still shown after a copy requested earlier has
\* completed and its acknowledgement has expired
C12_Witness ==
  /\ Threw /\ error = "bad column" /\ output = ""
  /\ clipboard = "X" /\ ~copied /\ timers = <<>> /\ pending = <<>>

\* C15: after an execute the result is Succeeded or Failed, never the
\* neutral value with output and error both empty.
C15_NeverNeutral == Executed => ~Idle

\* {output && <button onClick={copyToClipboard}>}: the copy action is offered
CopyExposed == output # ""

\* {copied ? "Copied!" : "Copy"} inside that button: the acknowledgement shows
AckShown == CopyExposed /\ copied

\* C16: the copy action is offered only while the result is Succeeded.
C16_CopyOnlySucceeded == CopyExposed => Succeeded

\* C17: while the acknowledgement shows, the result is Succeeded and the
\* clipboard holds the output displayed.
C17_AckMatchesOutput == AckShown => (Succeeded /\ clipboard = output)

\* the execute ended in a ReferenceError for an identifier of the program
UnresolvedFailure ==
  Threw /\ \E id \in FreeIdentifiers(last.src) : error = NotDefined(id)

\* C18: every name the editor declares is bound in the execution scope, so a
\* program whose free identifiers are all declared names never ends in an
\* unresolved identifier.
C18_DeclaredAreBound ==
  (Executed /\ FreeIdentifiers(last.src) \subseteq GlobalDeclarations)
    => ~UnresolvedFailure

------------------------------------------------------------------------------
(* Properties of scripts/copy-types.js, under SpecScript *)

ScriptDone == scriptPc = "done"

\* C13: every run of the script, also one in which a file operation threw,
\* ends with exit status 0.
C13_ExitsZero ==
  /\ exitCode \in {NotExited, 0}
  /\ ScriptDone => exitCode = 0

\* reached: a run whose write threw, ended with status 0 and nothing written
C13_Witness ==
  /\ ScriptDone /\ raised /\ exitCode = 0
  /\ ~hasBundle /\ IndexFile \in present /\ target = Absent

TargetWritten == target.kind \in {"bundle", "generated", "stub"}

Lines(t) == { t.lines[k] : k \in 1..Len(t.lines) }

DeclarationOf(file) == "export declare const " \o file

\* the target holds the regenerated declarations: those of the files that
\* exist, the re-exports of the index, no import and no export * statement
Regenerated ==
  /\ target.kind = "generated"
  /\ \A l \in Lines(target) : ~MatchesImport(l) /\ ~MatchesExportStar(l)
  /\ \A f \in FileNames \ {IndexFile} :
       DeclarationOf(f) \in Lines(target) <=> f \in present
  /\ ReExportLine \in Lines(target)

====
